---- MODULE Spec2Model ----
(***************************************************************************)
(* State-machine model of the to-do back end in src/app/main.py: the four  *)
(* tables of the SQLite store (users, todos, tags and the many-to-many     *)
(* through table todos_tags), the request handlers that read and write     *)
(* them, and the paginated list queries.                                   *)
(*                                                                         *)
(* Two specifications are given.  Spec runs every request as one atomic    *)
(* step (requests one after the other).  SpecConc runs create_tag,         *)
(* update_todos and the seeding routine one store access at a time, so     *)
(* that requests interleave at their await points.                         *)
(***************************************************************************)
EXTENDS Integers, Sequences, FiniteSets, TLC

VARIABLES
    users,        \* rows of table "users"
    todos,        \* rows of table "todos"
    tags,         \* rows of table "tags"
    todos_tags,   \* rows of the through table of TodoModel.tags
    clock,        \* the server clock read by datetime.now
    req,          \* the request handled last
    resp,         \* the response to it
    nops,         \* number of requests handled so far
    tasks         \* SpecConc: the coroutines in flight, by slot

vars == <<users, todos, tags, todos_tags, clock, req, resp, nops, tasks>>

-----------------------------------------------------------------------------
(* Bounds of the model *)

\* requests handled in one behaviour of Spec
MaxOps == 2

\* coroutines started in one behaviour of SpecConc
MaxTasks == 2

-----------------------------------------------------------------------------
(* Program constants *)

init_users == <<"Harry", "Leo", "Amy", "Alvin">>

init_todos ==
    <<"Code", "Groceries", "Clean", "Call", "Bills", "Walk", "Report",
      "Doctor", "Plants", "Read", "Library", "Trash", "Laundry", "Desk">>

init_todo_user_ids == <<1, 2, 3, 4>>

\* Importance(int, Enum)
NONE == 0
LOW == 1
MIDDLE == 2
HIGH == 3
Importance == {NONE, LOW, MIDDLE, HIGH}

\* default of TagModel.color
DEFAULT_COLOR == "1111111"

-----------------------------------------------------------------------------
(* The store: SQLite tables behind ormar *)

Max(S) == CHOOSE m \in S : \A x \in S : x <= m

Min2(a, b) == IF a <= b THEN a ELSE b

\* the four tables and the clock as one value
DB ==
    [users |-> users, todos |-> todos, tags |-> tags,
     todos_tags |-> todos_tags, clock |-> clock]

\* metadata.drop_all / create_all: every table empty
EmptyDB(now) ==
    [users |-> {}, todos |-> {}, tags |-> {}, todos_tags |-> {}, clock |-> now]

\* "id INTEGER NOT NULL, PRIMARY KEY (id)" in SQLite is the rowid: a new row
\* gets one more than the largest id in the table (no AUTOINCREMENT), so the id
\* of a deleted last row is handed out again.
NextId(rows) == IF rows = {} THEN 1 ELSE Max({r.id : r \in rows}) + 1

\* ormar returns rows ordered by primary key unless told otherwise
RECURSIVE OrderByPk(_)
OrderByPk(rows) ==
    IF rows = {} THEN <<>>
    ELSE LET m == CHOOSE r \in rows : \A q \in rows : r.id <= q.id
         IN  <<m>> \o OrderByPk(rows \ {m})

\* order_by(TodoModel.create_time.asc())
RECURSIVE OrderByCreateTime(_)
OrderByCreateTime(rows) ==
    IF rows = {} THEN <<>>
    ELSE LET m == CHOOSE r \in rows : \A q \in rows :
                      \/ r.create_time < q.create_time
                      \/ r.create_time = q.create_time /\ r.id <= q.id
         IN  <<m>> \o OrderByCreateTime(rows \ {m})

-----------------------------------------------------------------------------
(* Credentials *)

\* what the pwd column holds: the text of a bcrypt hash (salt and digest of a
\* password), or whatever other text was written to it
BcryptText(password, salt) == [fmt |-> "bcrypt", salt |-> salt, of |-> password]
RawText(s) == [fmt |-> "raw", salt |-> 0, of |-> s]

\* bcrypt.gensalt()
Salts == {1, 2}

\* UserModel.generate_hash_password, salt being the value gensalt returned
generate_hash_password(password, salt) ==
    IF Len(password) < 8 THEN [ok |-> FALSE, error |-> "ValueError"]
    ELSE IF Len(password) > 16 THEN [ok |-> FALSE, error |-> "ValueError"]
    ELSE [ok |-> TRUE, value |-> BcryptText(password, salt)]

\* UserModel.verify_password: bcrypt.checkpw raises on a pwd that is no hash
verify_password(user, plain_password) ==
    IF user.pwd.fmt = "bcrypt"
    THEN [ok |-> TRUE, value |-> (user.pwd.of = plain_password)]
    ELSE [ok |-> FALSE, error |-> "ValueError"]

-----------------------------------------------------------------------------
(* ormar queries and writes *)

\* rows matching every keyword of filter(**kw)
Matching(rows, kw) == {r \in rows : \A f \in DOMAIN kw : r[f] = kw[f]}

\* objects.get(**kw): exactly one row, else NoMatch or MultipleMatches
objects_get(rows, kw) ==
    LET m == Matching(rows, kw)
    IN  IF m = {} THEN [ok |-> FALSE, error |-> "NoMatch"]
        ELSE IF Cardinality(m) > 1 THEN [ok |-> FALSE, error |-> "MultipleMatches"]
        ELSE [ok |-> TRUE, value |-> CHOOSE r \in m : TRUE]

\* the constraint UniqueColumns("name", "user") of table "tags": TRUE when
\* inserting row would break it
UniqueColumns_NotEnforced(rows, row) == FALSE

UniqueColumns(rows, row) ==
    \E r \in rows : r.name = row.name /\ r.user = row.user

\* the row TagModel(**kw) would insert
NewTag(db, kw) ==
    [id |-> NextId(db.tags),
     name |-> kw.name,
     color |-> IF "color" \in DOMAIN kw THEN kw.color ELSE DEFAULT_COLOR,
     user |-> kw.user]

\* TagModel.objects.create(**kw): the INSERT, refused by the unique constraint
create_tag_row(db, kw) ==
    LET row == NewTag(db, kw)
    IN  IF UniqueColumns(db.tags, row)
        THEN [ok |-> FALSE, error |-> "IntegrityError", db |-> db]
        ELSE [ok |-> TRUE, value |-> row, db |-> [db EXCEPT !.tags = @ \cup {row}]]

\* a get_or_create that never looks the row up
get_or_create_always_creates(db, kw) == create_tag_row(db, kw)

\* TagModel.objects.get_or_create(**kw): get, and create on NoMatch
get_or_create(db, kw) ==
    LET got == objects_get(db.tags, kw)
    IN  IF got.ok THEN [ok |-> TRUE, value |-> got.value, db |-> db]
        ELSE IF got.error = "NoMatch" THEN create_tag_row(db, kw)
        ELSE [ok |-> FALSE, error |-> got.error, db |-> db]

\* todo.save() of a new TodoModel: create_time defaults to datetime.now
save_todo(db, item, plan_time, user_id, content, importance) ==
    LET row == [id |-> NextId(db.todos), item |-> item, create_time |-> db.clock,
                plan_time |-> plan_time, content |-> content, user |-> user_id,
                importance |-> importance]
    IN  [value |-> row,
         db |-> [db EXCEPT !.todos = @ \cup {row}, !.clock = @ + 1]]

\* todo.tags.add(tag): one INSERT into the through table
tags_add(db, todo_id, tag_id) ==
    [db EXCEPT !.todos_tags =
        @ \cup {[id |-> NextId(db.todos_tags), todo |-> todo_id, tag |-> tag_id]}]

\* model.delete(): DELETE of the one row by primary key.  The through table's
\* foreign keys are declared ON DELETE CASCADE, but the connection never issues
\* PRAGMA foreign_keys=ON, so SQLite does not act on them: rows of todos_tags
\* stay.
delete_row(db, table, id) ==
    [db EXCEPT ![table] = {r \in @ : r.id # id}]

-----------------------------------------------------------------------------
(* init_db_and_tables *)

SEED_PASSWORD == "12345678"

\* one pass of the loop over init_users (i counts from 1)
SeedUser(db, salts, i) ==
    LET pwd == generate_hash_password(SEED_PASSWORD, salts[i])
        user == [id |-> NextId(db.users), user_name |-> init_users[i],
                 pwd |-> pwd.value]
    IN  [db EXCEPT !.users = @ \cup {user}]

RECURSIVE SeedUsers(_, _, _)
SeedUsers(db, salts, i) ==
    IF i > Len(init_users) THEN db
    ELSE SeedUsers(SeedUser(db, salts, i), salts, i + 1)

\* one pass of the loop over init_todos (i counts from 1)
SeedTodo(db, i) ==
    LET init_todo_user_id == init_todo_user_ids[((i - 1) % 4) + 1]
        user == objects_get(db.users, [id |-> init_todo_user_id])
        tag == get_or_create(db, [name |-> "a", color |-> "#000000",
                                  user |-> init_todo_user_id])
        todo == save_todo(tag.db, init_todos[i], tag.db.clock, init_todo_user_id,
                          "Hello", MIDDLE)
    IN  IF ~user.ok \/ ~tag.ok THEN [ok |-> FALSE, db |-> tag.db]
        ELSE [ok |-> TRUE, db |-> tags_add(todo.db, todo.value.id, tag.value.id)]

RECURSIVE SeedTodos(_, _)
SeedTodos(db, i) ==
    IF i > Len(init_todos) THEN db
    ELSE LET r == SeedTodo(db, i)
         IN  IF r.ok THEN SeedTodos(r.db, i + 1) ELSE r.db

\* the whole routine, run with nothing else in between
init_db_and_tables(now, salts) ==
    SeedTodos(SeedUsers(EmptyDB(now), salts, 1), 1)

\* the salts gensalt hands to one run of the routine
SeedSalts == {<<1, 2, 1, 2>>, <<2, 2, 1, 1>>}

-----------------------------------------------------------------------------
(* Responses *)

HTTPException(status_code, detail) == [status |-> status_code, detail |-> detail]

\* an exception no handler catches: the framework answers 500
Unhandled(error) == [status |-> 500, detail |-> error]

OK(body) == [status |-> 200, body |-> body]

\* response_model=User
UserView(user) == [id |-> user.id, user_name |-> user.user_name]

\* response_model=Tag
TagView(tag) ==
    [id |-> tag.id, name |-> tag.name, color |-> tag.color, isSelected |-> FALSE]

\* the tags select_related joins to a todo through todos_tags
TagsOf(db, todo) ==
    {g \in db.tags : \E l \in db.todos_tags : l.todo = todo.id /\ l.tag = g.id}

\* the user select_related joins to a todo
UserOf(db, todo) == {UserView(u) : u \in {u \in db.users : u.id = todo.user}}

\* response_model=Todo, tag rows being those the query joined
TodoView(db, todo, joined) ==
    [id |-> todo.id, item |-> todo.item, create_time |-> todo.create_time,
     plan_time |-> todo.plan_time, content |-> todo.content,
     importance |-> todo.importance, user |-> UserOf(db, todo),
     tags |-> {TagView(g) : g \in joined}]

-----------------------------------------------------------------------------
(* Tokens *)

\* config.JWT_SECRET_KEY
SECRET == "SECRET"

\* security.create_access_token(uid=..., data={'id': ...}, expiry=one week)
create_access_token(uid, id) ==
    [sub |-> uid, id |-> id, type |-> "access", key |-> SECRET, expired |-> FALSE]

\* security.verify_token: signature, expiry and type of the token
verify_token(token) ==
    IF token.key = SECRET /\ ~token.expired /\ token.type = "access"
    THEN [ok |-> TRUE, value |-> token]
    ELSE [ok |-> FALSE, error |-> "JWTDecodeError"]

\* security.get_access_token_from_request: the bearer token of the request's
\* header; without one it raises MissingTokenError
get_access_token_from_request(token) ==
    IF token.type = "missing" THEN [ok |-> FALSE, error |-> "MissingTokenError"]
    ELSE [ok |-> TRUE, value |-> token]

\* get_current_user_id: the id claim of a verified token, else 401.  Its
\* parameter is the dependency get_access_token_from_request, which runs before
\* the body and so outside its try: what that raises no one catches.
get_current_user_id(token) ==
    LET request_token == get_access_token_from_request(token)
        token_payload == verify_token(token)
    IN  IF ~request_token.ok
        THEN [ok |-> FALSE, resp |-> Unhandled(request_token.error)]
        ELSE IF token_payload.ok
        THEN [ok |-> TRUE, user_id |-> token_payload.value.id]
        ELSE [ok |-> FALSE, resp |-> HTTPException(401, token_payload.error)]

\* security.ACCESS_REQUIRED: the dependency access_token_required, which takes
\* the token from the request and verifies it; its errors are not HTTPException
\* and the application registers no handler for them
access_token_required(token) ==
    LET request_token == get_access_token_from_request(token)
        token_payload == verify_token(token)
    IN  IF ~request_token.ok
        THEN [ok |-> FALSE, resp |-> Unhandled(request_token.error)]
        ELSE IF ~token_payload.ok
        THEN [ok |-> FALSE, resp |-> Unhandled(token_payload.error)]
        ELSE [ok |-> TRUE, value |-> token_payload.value]

-----------------------------------------------------------------------------
(* Handlers that write: each maps the store and a request to the store *)
(* afterwards and the response                                         *)

\* POST /login
login(db, dto) ==
    LET user == objects_get(db.users, [user_name |-> dto.username])
        verified == verify_password(user.value, dto.password)
    IN  IF ~user.ok /\ user.error = "NoMatch"
        THEN HTTPException(400, "User does not exist!")
        ELSE IF ~user.ok THEN Unhandled(user.error)
        ELSE IF ~verified.ok THEN Unhandled(verified.error)
        ELSE IF ~verified.value THEN HTTPException(400, "Password incorrect!")
        ELSE OK([access_token |-> create_access_token(dto.username, user.value.id)])

\* POST /create_user/
create_user(db, userDto) ==
    IF Len(userDto.user_name) > 12 \/ Len(userDto.user_name) < 3
    THEN [db |-> db, resp |-> HTTPException(400, "min_length=3, max_length=12")]
    ELSE IF Len(userDto.pwd) > 12 \/ Len(userDto.pwd) < 3
    THEN [db |-> db, resp |-> HTTPException(400, "min_length=3, max_length=12")]
    ELSE LET user == [id |-> NextId(db.users), user_name |-> userDto.user_name,
                      pwd |-> RawText(userDto.pwd)]
         IN  [db |-> [db EXCEPT !.users = @ \cup {user}], resp |-> OK(UserView(user))]

\* POST /create_tag/
create_tag(db, tagDto) ==
    LET user == objects_get(db.users, [id |-> tagDto.user_id])
        tag == get_or_create(db, [name |-> tagDto.name, user |-> tagDto.user_id])
        todo == objects_get(tag.db.todos, [id |-> tagDto.todo_id])
    IN  IF ~user.ok
        THEN [db |-> db, resp |-> HTTPException(400, "User does not exist!!!!!!!!")]
        ELSE IF ~tag.ok /\ tag.error = "IntegrityError"
        THEN [db |-> tag.db, resp |-> HTTPException(400, "already has a tag named")]
        ELSE IF ~tag.ok THEN [db |-> tag.db, resp |-> Unhandled(tag.error)]
        ELSE IF ~todo.ok
        THEN [db |-> tag.db, resp |-> HTTPException(400, "Todo does not exist!")]
        ELSE [db |-> tags_add(tag.db, todo.value.id, tag.value.id),
              resp |-> OK(TagView(tag.value))]

\* TodoDto.parse_plan_time / UpdateTodoDto.parse_plan_time: the text of a time
\* in TIME_FORMAT is <<t>>, t being the instant it spells; "" is <<>>
parse_plan_time(value) ==
    IF value # <<>> THEN [truthy |-> TRUE, datetime |-> value[1]]
    ELSE [truthy |-> FALSE]

\* POST /create_todos/ : TodoModel(plan_time="") does not validate
create_todo(db, todoDto) ==
    LET user == objects_get(db.users, [id |-> todoDto.user_id])
        plan_time == parse_plan_time(todoDto.plan_time)
        todo == save_todo(db, todoDto.item, plan_time.datetime, todoDto.user_id,
                          todoDto.content, todoDto.importance)
    IN  IF ~user.ok
        THEN [db |-> db, resp |-> HTTPException(400, "User does not exist!")]
        ELSE IF ~plan_time.truthy
        THEN [db |-> db, resp |-> Unhandled("ValidationError")]
        ELSE [db |-> todo.db, resp |-> OK(TodoView(todo.db, todo.value, {}))]

\* DELETE /delete_todos/{todo_id}
delete_todos(db, todo_id) ==
    LET todo == objects_get(db.todos, [id |-> todo_id])
    IN  IF ~todo.ok
        THEN [db |-> db, resp |-> HTTPException(404, "Todo not found")]
        ELSE [db |-> delete_row(db, "todos", todo_id),
              resp |-> OK("Todo deleted successfully")]

\* DELETE /delete_tag/{tag_id}
delete_tags(db, tag_id) ==
    LET tag == objects_get(db.tags, [id |-> tag_id])
    IN  IF ~tag.ok
        THEN [db |-> db, resp |-> HTTPException(404, "tag not found")]
        ELSE [db |-> delete_row(db, "tags", tag_id),
              resp |-> OK("tag deleted successfully")]

\* the assignments update_todos makes to the row it read
apply_update_always_plan_time(todo, updateDto) ==
    [todo EXCEPT !.item = updateDto.item,
                 !.plan_time = IF parse_plan_time(updateDto.plan_time).truthy
                               THEN parse_plan_time(updateDto.plan_time).datetime
                               ELSE 0,
                 !.content = updateDto.content,
                 !.importance = updateDto.importance]

apply_update(todo, updateDto) ==
    [todo EXCEPT !.item = updateDto.item,
                 !.plan_time = IF parse_plan_time(updateDto.plan_time).truthy
                               THEN parse_plan_time(updateDto.plan_time).datetime
                               ELSE @,
                 !.content = updateDto.content,
                 !.importance = updateDto.importance]

\* todo.update(): UPDATE of every column of the row with the object's key
update_row(db, todo) ==
    [db EXCEPT !.todos = {IF r.id = todo.id THEN todo ELSE r : r \in @}]

\* POST /update_todos/{todo_id}
update_todos(db, updateDto, todo_id) ==
    LET todo == objects_get(db.todos, [id |-> todo_id])
        new == apply_update(todo.value, updateDto)
        after == update_row(db, new)
    IN  IF ~todo.ok
        THEN [db |-> db, resp |-> HTTPException(404, "Todo not found")]
        ELSE [db |-> after, resp |-> OK(TodoView(after, new, {}))]

-----------------------------------------------------------------------------
(* Query building *)

\* the columns and relations of TodoModel that filter() can name
TodoFields ==
    {"id", "item", "create_time", "plan_time", "content", "user", "importance",
     "tags"}

\* filter(user=user_id)
filter_user_skipped(rows, user_id) == rows

filter_user(rows, user_id) == {t \in rows : t.user = user_id}

\* filter(importance=item_importance)
filter_importance(rows, item_importance) ==
    {t \in rows : t.importance = item_importance}

\* the lower-case form LIKE compares
LowerChar(c) ==
    CASE c = "A" -> "a" [] c = "B" -> "b" [] c = "C" -> "c" [] c = "D" -> "d"
      [] c = "E" -> "e" [] c = "F" -> "f" [] c = "G" -> "g" [] c = "H" -> "h"
      [] c = "I" -> "i" [] c = "J" -> "j" [] c = "K" -> "k" [] c = "L" -> "l"
      [] c = "M" -> "m" [] c = "N" -> "n" [] c = "O" -> "o" [] c = "P" -> "p"
      [] c = "Q" -> "q" [] c = "R" -> "r" [] c = "S" -> "s" [] c = "T" -> "t"
      [] c = "U" -> "u" [] c = "V" -> "v" [] c = "W" -> "w" [] c = "X" -> "x"
      [] c = "Y" -> "y" [] c = "Z" -> "z" [] OTHER -> c

RECURSIVE Lower(_)
Lower(s) ==
    IF Len(s) = 0 THEN ""
    ELSE LowerChar(SubSeq(s, 1, 1)) \o Lower(SubSeq(s, 2, Len(s)))

\* filter(item__icontains=item_name)
icontains(s, sub) ==
    \E i \in 1..(Len(s) - Len(sub) + 1) :
        SubSeq(Lower(s), i, i + Len(sub) - 1) = Lower(sub)

filter_item(rows, item_name) == {t \in rows : icontains(t.item, item_name)}

\* a query that drops the tags__id keyword
filter_tag_skipped(db, rows, tag_id) == rows

\* filter(tags__id=tag_id): the join through todos_tags to the tag row
filter_tag(db, rows, tag_id) ==
    {t \in rows : \E g \in TagsOf(db, t) : g.id = tag_id}

\* filter(plan_time__gt=plan_time_start, plan_time__lt=plan_time_end)
filter_plan_time(rows, plan_time_start, plan_time_end) ==
    {t \in rows : t.plan_time > plan_time_start /\ t.plan_time < plan_time_end}

\* timedelta(hours=1) and timedelta(days=1), in ticks of the clock
HOUR == 2
DAY == 48

\* A plan-time text is given by its length, the format it is written in and
\* the instant it spells.  datetime.strptime(text, fmt):
strptime(text, fmt) ==
    IF text.fmt = fmt THEN [ok |-> TRUE, value |-> text.at]
    ELSE [ok |-> FALSE, error |-> "ValueError"]

\* the dispatch on len(plan_time_str) both plan-time handlers share
plan_time_window(plan_time_str) ==
    IF plan_time_str.len = 13
    THEN LET plan_time_start == strptime(plan_time_str, "%Y-%m-%d %H")
         IN  IF plan_time_start.ok
             THEN [ok |-> TRUE, filter |-> TRUE, start |-> plan_time_start.value,
                   end |-> plan_time_start.value + HOUR]
             ELSE plan_time_start
    ELSE IF plan_time_str.len = 10
    THEN LET plan_time_start == strptime(plan_time_str, "%Y-%m-%d")
         IN  IF plan_time_start.ok
             THEN [ok |-> TRUE, filter |-> TRUE, start |-> plan_time_start.value,
                   end |-> plan_time_start.value + DAY]
             ELSE plan_time_start
    ELSE [ok |-> TRUE, filter |-> FALSE]

\* offset(skip).limit(limit) of an ordered result
Page(rows, skip, limit) ==
    IF skip >= Len(rows) THEN <<>>
    ELSE SubSeq(rows, skip + 1, Min2(skip + limit, Len(rows)))

\* select_related(['user', 'tags']) of each row of a page
Views(db, rows) ==
    [i \in 1..Len(rows) |-> TodoView(db, rows[i], TagsOf(db, rows[i]))]

PaginateModel(page, items, per_page, total_items) ==
    OK([page |-> page, per_page |-> per_page, total_items |-> total_items,
        items |-> items])

-----------------------------------------------------------------------------
(* Handlers that list *)

\* GET /get_todos/
read_todos(db, page, per_page, token) ==
    LET auth == get_current_user_id(token)
        skip == (page - 1) * per_page
        limit == per_page
        query == filter_user(db.todos, auth.user_id)
        total_items == Cardinality(query)
        items == Page(OrderByCreateTime(query), skip, limit)
    IN  IF ~auth.ok THEN auth.resp
        ELSE PaginateModel(page, Views(db, items), per_page, total_items)

\* GET /get_todos_by_user/{user_id}: the 404 is raised inside the try and
\* leaves as the 401 of its except clause
read_todos_by_user(db, page, per_page, token) ==
    LET auth == get_current_user_id(token)
        skip == (page - 1) * per_page
        limit == per_page
        query == filter_user(db.todos, auth.user_id)
        total_items == Cardinality(query)
        items == Page(OrderByPk(query), skip, limit)
    IN  IF ~auth.ok THEN auth.resp
        ELSE IF items = <<>>
        THEN HTTPException(401, "User not found or no todos for this user")
        ELSE PaginateModel(page, Views(db, items), per_page, total_items)

\* GET /get_todos_by_item_name/
get_todos_by_item_name(db, page, per_page, item_name, plan_time_str, item_importance, tag_id, token) ==
    LET auth == get_current_user_id(token)
        skip == (page - 1) * per_page
        limit == per_page
        window == plan_time_window(plan_time_str)
        q0 == filter_user(db.todos, auth.user_id)
        q1 == IF window.filter THEN filter_plan_time(q0, window.start, window.end)
              ELSE q0
        q2 == IF Len(item_name) > 0 THEN filter_item(q1, item_name) ELSE q1
        q3 == IF item_importance > 0 THEN filter_importance(q2, item_importance)
              ELSE q2
        query == IF tag_id > 0 THEN filter_tag(db, q3, tag_id) ELSE q3
        total_items == Cardinality(query)
        items == Page(OrderByPk(query), skip, limit)
        views == [i \in 1..Len(items) |->
                    TodoView(db, items[i],
                             IF tag_id > 0
                             THEN {g \in TagsOf(db, items[i]) : g.id = tag_id}
                             ELSE TagsOf(db, items[i]))]
    IN  IF ~auth.ok THEN auth.resp
        ELSE IF ~window.ok THEN HTTPException(401, window.error)
        ELSE PaginateModel(page, views, per_page, total_items)

\* GET /get_todos_by_item_importance/{item_importance}: payload, the
\* dependency ACCESS_REQUIRED, is resolved before user_id
get_todos_by_importance(db, item_importance, page, per_page, token) ==
    LET payload == access_token_required(token)
        auth == get_current_user_id(token)
        skip == (page - 1) * per_page
        limit == per_page
        query == filter_importance(filter_user(db.todos, auth.user_id),
                                   item_importance)
        total_items == Cardinality(query)
        items == Page(OrderByPk(query), skip, limit)
    IN  IF ~payload.ok THEN payload.resp
        ELSE IF ~auth.ok THEN auth.resp
        ELSE PaginateModel(page, Views(db, items), per_page, total_items)

\* GET /get_todos_by_plan_time/{plan_time_str}: both branches filter on the
\* keyword User, which names no field of TodoModel, and the handler has no try
get_todo_by_plan_time(db, plan_time_str, page, per_page, token) ==
    LET auth == get_current_user_id(token)
        skip == (page - 1) * per_page
        limit == per_page
        window == plan_time_window(plan_time_str)
        query == filter_plan_time(filter_user(db.todos, auth.user_id),
                                  window.start, window.end)
        total_items == Cardinality(query)
        items == Page(OrderByPk(query), skip, limit)
    IN  IF ~auth.ok THEN auth.resp
        ELSE IF plan_time_str.fmt = "null"
        THEN Unhandled("KeyError")
        ELSE IF ~window.ok THEN Unhandled(window.error)
        ELSE IF ~window.filter
        THEN HTTPException(400, "Plan time format invalid!")
        ELSE IF "User" \notin TodoFields THEN Unhandled("KeyError")
        ELSE PaginateModel(page, Views(db, items), per_page, total_items)

-----------------------------------------------------------------------------
(* Requests the model sends *)

\* text of an instant in TIME_FORMAT, and the empty text
TimeText(t) == <<t>>
NoText == <<>>

UserDtos ==
    {[user_name |-> "ab", pwd |-> "password"],
     [user_name |-> "test_user", pwd |-> "password"],
     [user_name |-> "test_user", pwd |-> "test_password"]}

LoginDtos ==
    {[username |-> "Harry", password |-> "12345678"],
     [username |-> "Harry", password |-> "password"],
     [username |-> "test_user", password |-> "password"]}

TodoDtos ==
    {[item |-> "Test Todo", plan_time |-> TimeText(40), user_id |-> 1,
      content |-> "Test Content", importance |-> HIGH],
     [item |-> "Bob's", plan_time |-> TimeText(15), user_id |-> 2,
      content |-> "Test Content", importance |-> NONE],
     [item |-> "Test Todo", plan_time |-> NoText, user_id |-> 1,
      content |-> "Test Content", importance |-> HIGH],
     [item |-> "Test Todo", plan_time |-> TimeText(40), user_id |-> 999,
      content |-> "Test Content", importance |-> HIGH]}

TagDtos ==
    {[user_id |-> u, todo_id |-> t, name |-> n, color |-> "#123456"] :
        u \in {1}, t \in {1, 2, 999}, n \in {"a", "Test Tag"}}
    \cup {[user_id |-> 999, todo_id |-> 1, name |-> "Test Tag", color |-> "#123456"]}

UpdateTodoDtos ==
    {[item |-> "Updated Test Todo", plan_time |-> TimeText(60),
      content |-> "Updated Test Content", importance |-> LOW],
     [item |-> "Renamed", plan_time |-> NoText,
      content |-> "Updated Test Content", importance |-> HIGH]}

TodoIds == {1, 14, 999}
TagIds == {1, 4, 999}

\* what a client may send as token: one issued by login, an outdated one, one
\* signed by another key, text that is no token, or no token at all
Access(u) == create_access_token(init_users[u], u)
NoToken == [sub |-> "", id |-> 0, type |-> "missing", key |-> "", expired |-> FALSE]
BadTokens ==
    {[Access(1) EXCEPT !.expired = TRUE],
     [Access(2) EXCEPT !.key = "OTHER"],
     [sub |-> "", id |-> 0, type |-> "malformed", key |-> "", expired |-> FALSE],
     NoToken}
Tokens == {Access(1), Access(2)} \cup BadTokens

\* page and per_page
Pagings == {<<1, 3>>, <<2, 3>>, <<2, 5>>}

\* a request without valid token is sent for the first page only
Sent(token, p) == token \in BadTokens => p = <<1, 3>>

\* plan-time texts: "2024-06-06 11"-like, "2024-06-06"-like, "null",
\* thirteen and ten characters that are no date, "invalid_format", and ""
PlanTimeStrs ==
    {[len |-> 13, fmt |-> "%Y-%m-%d %H", at |-> 14],
     [len |-> 10, fmt |-> "%Y-%m-%d", at |-> 0],
     [len |-> 4, fmt |-> "null", at |-> 0],
     [len |-> 13, fmt |-> "none", at |-> 0],
     [len |-> 14, fmt |-> "none", at |-> 0]}
EmptyStr == [len |-> 0, fmt |-> "none", at |-> 0]

\* item_name, plan_time_str, item_importance and tag_id of one search
Searches ==
    {[item_name |-> "", plan_time_str |-> EmptyStr, item_importance |-> -1, tag_id |-> -1],
     [item_name |-> "b", plan_time_str |-> EmptyStr, item_importance |-> -1, tag_id |-> -1],
     [item_name |-> "", plan_time_str |-> EmptyStr, item_importance |-> MIDDLE, tag_id |-> 1],
     [item_name |-> "", plan_time_str |-> [len |-> 10, fmt |-> "%Y-%m-%d", at |-> 0],
      item_importance |-> NONE, tag_id |-> -1],
     [item_name |-> "", plan_time_str |-> [len |-> 13, fmt |-> "%Y-%m-%d %H", at |-> 40],
      item_importance |-> -1, tag_id |-> -1],
     [item_name |-> "", plan_time_str |-> [len |-> 13, fmt |-> "none", at |-> 0],
      item_importance |-> -1, tag_id |-> -1]}

-----------------------------------------------------------------------------
(* Spec: requests handled one after the other *)

Slots == {1, 2}
Idle == [pc |-> "idle"]

\* lifespan: init_db_and_tables twice, then the application serves
lifespan(now, salts1, salts2) ==
    init_db_and_tables(init_db_and_tables(now, salts1).clock, salts2)

Commit(db) ==
    /\ users' = db.users
    /\ todos' = db.todos
    /\ tags' = db.tags
    /\ todos_tags' = db.todos_tags
    /\ clock' = db.clock

Init ==
    /\ \E salts1 \in SeedSalts, salts2 \in SeedSalts :
          LET db == lifespan(0, salts1, salts2)
          IN  /\ users = db.users
              /\ todos = db.todos
              /\ tags = db.tags
              /\ todos_tags = db.todos_tags
              /\ clock = db.clock
    /\ req = [op |-> "lifespan"]
    /\ resp = OK("startup")
    /\ nops = 0
    /\ tasks = [s \in Slots |-> Idle]

\* one request from its arrival to its response
Handle(r, db, response) ==
    /\ nops < MaxOps
    /\ nops' = nops + 1
    /\ req' = r
    /\ resp' = response
    /\ Commit(db)
    /\ UNCHANGED tasks

InitDbAndTables ==
    \E salts \in SeedSalts :
        Handle([op |-> "init_db_and_tables"], init_db_and_tables(clock, salts),
               OK("seeded"))

Login ==
    \E dto \in LoginDtos :
        Handle([op |-> "login", dto |-> dto], DB, login(DB, dto))

CreateUser ==
    \E userDto \in UserDtos :
        LET r == create_user(DB, userDto)
        IN  Handle([op |-> "create_user", dto |-> userDto], r.db, r.resp)

CreateTag ==
    \E tagDto \in TagDtos :
        LET r == create_tag(DB, tagDto)
        IN  Handle([op |-> "create_tag", dto |-> tagDto], r.db, r.resp)

CreateTodo ==
    \E todoDto \in TodoDtos :
        LET r == create_todo(DB, todoDto)
        IN  Handle([op |-> "create_todo", dto |-> todoDto], r.db, r.resp)

DeleteTodos ==
    \E todo_id \in TodoIds :
        LET r == delete_todos(DB, todo_id)
        IN  Handle([op |-> "delete_todos", id |-> todo_id], r.db, r.resp)

DeleteTags ==
    \E tag_id \in TagIds :
        LET r == delete_tags(DB, tag_id)
        IN  Handle([op |-> "delete_tag", id |-> tag_id], r.db, r.resp)

UpdateTodos ==
    \E updateDto \in UpdateTodoDtos, todo_id \in TodoIds :
        LET r == update_todos(DB, updateDto, todo_id)
        IN  Handle([op |-> "update_todos", dto |-> updateDto, id |-> todo_id],
                   r.db, r.resp)

ReadTodos ==
    \E token \in Tokens, p \in Pagings :
        /\ Sent(token, p)
        /\ Handle([op |-> "get_todos", token |-> token, page |-> p[1], per_page |-> p[2]],
               DB, read_todos(DB, p[1], p[2], token))

\* the user_id of the path is bound to no parameter of the handler
ReadTodosByUser ==
    \E token \in Tokens, p \in Pagings, user_id \in {1, 2} :
        /\ Sent(token, p)
        /\ Handle([op |-> "get_todos_by_user", token |-> token, page |-> p[1],
                per_page |-> p[2], user_id |-> user_id],
               DB, read_todos_by_user(DB, p[1], p[2], token))

GetTodosByItemName ==
    \E token \in Tokens, p \in Pagings, q \in Searches :
        /\ Sent(token, p)
        /\ Handle([op |-> "get_todos_by_item_name", token |-> token, page |-> p[1],
                per_page |-> p[2], search |-> q],
               DB, get_todos_by_item_name(DB, p[1], p[2], q.item_name,
                                          q.plan_time_str, q.item_importance,
                                          q.tag_id, token))

GetTodosByImportance ==
    \E token \in Tokens, p \in Pagings, item_importance \in {NONE, MIDDLE} :
        /\ Sent(token, p)
        /\ Handle([op |-> "get_todos_by_item_importance", token |-> token,
                page |-> p[1], per_page |-> p[2], item_importance |-> item_importance],
               DB, get_todos_by_importance(DB, item_importance, p[1], p[2], token))

GetTodoByPlanTime ==
    \E token \in Tokens, p \in Pagings, plan_time_str \in PlanTimeStrs :
        /\ Sent(token, p)
        /\ Handle([op |-> "get_todos_by_plan_time", token |-> token, page |-> p[1],
                per_page |-> p[2], plan_time_str |-> plan_time_str],
               DB, get_todo_by_plan_time(DB, plan_time_str, p[1], p[2], token))

Next ==
    \/ InitDbAndTables
    \/ Login
    \/ CreateUser
    \/ CreateTag
    \/ CreateTodo
    \/ DeleteTodos
    \/ DeleteTags
    \/ UpdateTodos
    \/ ReadTodos
    \/ ReadTodosByUser
    \/ GetTodosByItemName
    \/ GetTodosByImportance
    \/ GetTodoByPlanTime

Spec == Init /\ [][Next]_vars

-----------------------------------------------------------------------------
(* SpecConc: coroutines that give way to each other at every await *)

\* a coroutine when it is started, and when it has answered
Started(op, fields) ==
    [f \in {"op", "pc", "resp"} \cup DOMAIN fields |->
        CASE f = "op" -> op
          [] f = "pc" -> "start"
          [] f = "resp" -> [status |-> 0]
          [] OTHER -> fields[f]]

Done(task, response) == [task EXCEPT !.pc = "done", !.resp = response]

Goto(task, pc) == [task EXCEPT !.pc = pc]

\* create_tag from one await to the next; get_or_create is its get
\* (pc "get_tag") and, on NoMatch, its create (pc "create_tag")
create_tag_step(db, task) ==
    LET kw == [name |-> task.dto.name, user |-> task.dto.user_id]
    IN  CASE task.pc = "start" ->
               LET user == objects_get(db.users, [id |-> task.dto.user_id])
               IN  IF ~user.ok
                   THEN [db |-> db,
                         task |-> Done(task, HTTPException(400, "User does not exist!!!!!!!!"))]
                   ELSE [db |-> db, task |-> Goto(task, "get_tag")]
          [] task.pc = "get_tag" ->
               LET got == objects_get(db.tags, kw)
               IN  IF got.ok
                   THEN [db |-> db, task |-> [task EXCEPT !.pc = "get_todo", !.tag = got.value]]
                   ELSE IF got.error = "NoMatch"
                   THEN [db |-> db, task |-> Goto(task, "create_tag")]
                   ELSE [db |-> db, task |-> Done(task, Unhandled(got.error))]
          [] task.pc = "create_tag" ->
               LET made == create_tag_row(db, kw)
               IN  IF made.ok
                   THEN [db |-> made.db,
                         task |-> [task EXCEPT !.pc = "get_todo", !.tag = made.value]]
                   ELSE [db |-> db,
                         task |-> Done(task, HTTPException(400, "already has a tag named"))]
          [] task.pc = "get_todo" ->
               LET todo == objects_get(db.todos, [id |-> task.dto.todo_id])
               IN  IF ~todo.ok
                   THEN [db |-> db,
                         task |-> Done(task, HTTPException(400, "Todo does not exist!"))]
                   ELSE [db |-> db, task |-> Goto(task, "add")]
          [] task.pc = "add" ->
               [db |-> tags_add(db, task.dto.todo_id, task.tag.id),
                task |-> Done(task, OK(TagView(task.tag)))]

\* update_todos: the SELECT, then the UPDATE of the object changed in memory
\* (read keeps the row as it was selected)
update_todos_step(db, task) ==
    CASE task.pc = "start" ->
           LET todo == objects_get(db.todos, [id |-> task.id])
           IN  IF ~todo.ok
               THEN [db |-> db, task |-> Done(task, HTTPException(404, "Todo not found"))]
               ELSE [db |-> db,
                     task |-> [task EXCEPT !.pc = "update", !.read = todo.value,
                                           !.todo = apply_update(todo.value, task.dto)]]
      [] task.pc = "update" ->
           [db |-> update_row(db, task.todo),
            task |-> Done(task, OK(TodoView(update_row(db, task.todo), task.todo, {})))]

\* delete_tags: the SELECT, then the DELETE
delete_tags_step(db, task) ==
    CASE task.pc = "start" ->
           IF ~objects_get(db.tags, [id |-> task.id]).ok
           THEN [db |-> db, task |-> Done(task, HTTPException(404, "tag not found"))]
           ELSE [db |-> db, task |-> Goto(task, "delete")]
      [] task.pc = "delete" ->
           [db |-> delete_row(db, "tags", task.id),
            task |-> Done(task, OK("tag deleted successfully"))]

\* init_db_and_tables: drop_all and create_all, one INSERT per user, then
\* per todo the get of the user, get_or_create of the tag, save and add
init_db_and_tables_step(db, task) ==
    LET i == task.i
        init_todo_user_id == init_todo_user_ids[((i - 1) % 4) + 1]
        kw == [name |-> "a", color |-> "#000000", user |-> init_todo_user_id]
    IN  CASE task.pc = "start" ->
               [db |-> EmptyDB(db.clock), task |-> [task EXCEPT !.pc = "save_user", !.i = 1]]
          [] task.pc = "save_user" ->
               [db |-> SeedUser(db, task.salts, i),
                task |-> IF i = Len(init_users)
                         THEN [task EXCEPT !.pc = "get_user", !.i = 1]
                         ELSE [task EXCEPT !.i = i + 1]]
          [] task.pc = "get_user" ->
               IF ~objects_get(db.users, [id |-> init_todo_user_id]).ok
               THEN [db |-> db, task |-> Done(task, Unhandled("NoMatch"))]
               ELSE [db |-> db, task |-> Goto(task, "get_tag")]
          [] task.pc = "get_tag" ->
               LET got == objects_get(db.tags, kw)
               IN  IF got.ok
                   THEN [db |-> db, task |-> [task EXCEPT !.pc = "save_todo", !.tag = got.value]]
                   ELSE IF got.error = "NoMatch"
                   THEN [db |-> db, task |-> Goto(task, "create_tag")]
                   ELSE [db |-> db, task |-> Done(task, Unhandled(got.error))]
          [] task.pc = "create_tag" ->
               LET made == create_tag_row(db, kw)
               IN  IF made.ok
                   THEN [db |-> made.db,
                         task |-> [task EXCEPT !.pc = "save_todo", !.tag = made.value]]
                   ELSE [db |-> db, task |-> Done(task, Unhandled(made.error))]
          [] task.pc = "save_todo" ->
               LET todo == save_todo(db, init_todos[i], db.clock, init_todo_user_id,
                                     "Hello", MIDDLE)
               IN  [db |-> todo.db,
                    task |-> [task EXCEPT !.pc = "add", !.todo = todo.value]]
          [] task.pc = "add" ->
               [db |-> tags_add(db, task.todo.id, task.tag.id),
                task |-> IF i = Len(init_todos) THEN Done(task, OK("seeded"))
                         ELSE [task EXCEPT !.pc = "get_user", !.i = i + 1]]

\* requests sent while others are in flight
ConcTagDtos ==
    {[user_id |-> 1, todo_id |-> t, name |-> n, color |-> "#123456"] :
        t \in {1, 2}, n \in {"a", "Test Tag"}}

ConcTagIds == {1, 5}

Start(s, task) ==
    /\ nops < MaxTasks
    /\ tasks[s].pc = "idle"
    /\ tasks' = [tasks EXCEPT ![s] = task]
    /\ nops' = nops + 1
    /\ UNCHANGED <<users, todos, tags, todos_tags, clock, req, resp>>

Running(s, op) ==
    /\ tasks[s].pc \notin {"idle", "done"}
    /\ tasks[s].op = op

Run(s, r) ==
    /\ tasks' = [tasks EXCEPT ![s] = r.task]
    /\ Commit(r.db)
    /\ UNCHANGED <<req, resp, nops>>

StartCreateTag ==
    \E s \in Slots, tagDto \in ConcTagDtos :
        Start(s, Started("create_tag", [dto |-> tagDto, tag |-> [id |-> 0]]))

StartUpdateTodos ==
    \E s \in Slots, updateDto \in UpdateTodoDtos :
        Start(s, Started("update_todos",
                         [dto |-> updateDto, id |-> 1, read |-> [id |-> 0],
                          todo |-> [id |-> 0]]))

StartDeleteTags ==
    \E s \in Slots, tag_id \in ConcTagIds :
        Start(s, Started("delete_tag", [id |-> tag_id]))

\* the routine is not run twice at once
StartInitDbAndTables ==
    \E s \in Slots, salts \in SeedSalts :
        /\ \A o \in Slots : tasks[o].pc # "idle" => tasks[o].op # "init_db_and_tables"
        /\ Start(s, Started("init_db_and_tables",
                            [salts |-> salts, i |-> 1, tag |-> [id |-> 0],
                             todo |-> [id |-> 0]]))

CreateTagStep ==
    \E s \in Slots : Running(s, "create_tag") /\ Run(s, create_tag_step(DB, tasks[s]))

UpdateTodosStep ==
    \E s \in Slots : Running(s, "update_todos") /\ Run(s, update_todos_step(DB, tasks[s]))

DeleteTagsStep ==
    \E s \in Slots : Running(s, "delete_tag") /\ Run(s, delete_tags_step(DB, tasks[s]))

InitDbAndTablesStep ==
    \E s \in Slots :
        Running(s, "init_db_and_tables") /\ Run(s, init_db_and_tables_step(DB, tasks[s]))

\* the response is sent and the slot is free again
Respond ==
    \E s \in Slots :
        /\ tasks[s].pc = "done"
        /\ tasks' = [tasks EXCEPT ![s] = Idle]
        /\ UNCHANGED <<users, todos, tags, todos_tags, clock, req, resp, nops>>

NextConc ==
    \/ StartCreateTag
    \/ StartUpdateTodos
    \/ StartDeleteTags
    \/ StartInitDbAndTables
    \/ CreateTagStep
    \/ UpdateTodosStep
    \/ DeleteTagsStep
    \/ InitDbAndTablesStep
    \/ Respond

SpecConc == Init /\ [][NextConc]_vars

-----------------------------------------------------------------------------
(* Properties *)

ListOps ==
    {"get_todos", "get_todos_by_user", "get_todos_by_item_name",
     "get_todos_by_item_importance", "get_todos_by_plan_time"}

WriteOps == {"create_todo", "create_tag", "update_todos", "delete_todos", "delete_tag"}

\* the answer of the store db to list request r
ListAnswer(r, db) ==
    CASE r.op = "get_todos" -> read_todos(db, r.page, r.per_page, r.token)
      [] r.op = "get_todos_by_user" ->
           read_todos_by_user(db, r.page, r.per_page, r.token)
      [] r.op = "get_todos_by_item_name" ->
           get_todos_by_item_name(db, r.page, r.per_page, r.search.item_name,
                                  r.search.plan_time_str, r.search.item_importance,
                                  r.search.tag_id, r.token)
      [] r.op = "get_todos_by_item_importance" ->
           get_todos_by_importance(db, r.item_importance, r.page, r.per_page, r.token)
      [] r.op = "get_todos_by_plan_time" ->
           get_todo_by_plan_time(db, r.plan_time_str, r.page, r.per_page, r.token)

\* db without the todos of users other than u
OwnTodosOnly(db, u) == [db EXCEPT !.todos = {t \in @ : t.user = u}]

\* the last request was a list request of an authenticated caller
ListedByCaller == req.op \in ListOps /\ verify_token(req.token).ok

\* C1: a list request of authenticated caller u returns only todos u owns,
\* counts no more than the todos u owns, and is answered exactly as by the
\* store without the todos of every other user, whatever the request carries.
C1_OwnerScoped ==
    ListedByCaller =>
        LET u == req.token.id
        IN  /\ resp = ListAnswer(req, OwnTodosOnly(DB, u))
            /\ resp.status = 200 =>
                 /\ \A i \in 1..Len(resp.body.items) :
                       \E t \in todos : t.id = resp.body.items[i].id /\ t.user = u
                 /\ resp.body.total_items <= Cardinality({t \in todos : t.user = u})

\* a caller asks for another user's id in the path and gets own todos
C1_Witness ==
    /\ ListedByCaller
    /\ req.op = "get_todos_by_user"
    /\ req.user_id # req.token.id
    /\ resp.status = 200
    /\ Len(resp.body.items) > 0
    /\ \E t \in todos : t.user # req.token.id /\ t.item = "Bob's"

\* C2: no two rows of tags have the same name and user.
C2_UniqueNameUser ==
    \A a \in tags, b \in tags : (a.name = b.name /\ a.user = b.user) => a.id = b.id

\* a create_tag that lost the race for its (name, user): its INSERT was refused
C2_Witness ==
    \E s \in Slots :
        /\ tasks[s].pc = "done"
        /\ tasks[s].op = "create_tag"
        /\ tasks[s].resp = HTTPException(400, "already has a tag named")

\* C3: create_tag called again with the same name and user, user and todos
\* existing, answers with the same tag id and adds no row to tags.
C3_GetOrCreateIdempotent ==
    [][(/\ req.op = "create_tag"
        /\ req'.op = "create_tag"
        /\ req'.dto.name = req.dto.name
        /\ req'.dto.user_id = req.dto.user_id
        /\ \E u \in users : u.id = req.dto.user_id
        /\ \E t \in todos : t.id = req.dto.todo_id
        /\ \E t \in todos : t.id = req'.dto.todo_id)
       => (/\ resp.status = 200
           /\ resp'.status = 200
           /\ resp'.body.id = resp.body.id
           /\ Cardinality(tags') = Cardinality(tags))]_vars

\* two create_tag in a row made one "Test Tag" and linked it twice
C3_Witness ==
    /\ nops = 2
    /\ req.op = "create_tag"
    /\ resp.status = 200
    /\ resp.body.name = "Test Tag"
    /\ Cardinality({l \in todos_tags : l.tag = resp.body.id}) = 2
    /\ Cardinality({g \in tags : g.name = "Test Tag"}) = 1

\* two coroutines of operation op that both have answered
BothDone(s1, s2, op) ==
    /\ s1 # s2
    /\ tasks[s1].pc = "done" /\ tasks[s1].op = op
    /\ tasks[s2].pc = "done" /\ tasks[s2].op = op

\* C4: two create_tag for the same name and user that run at once both
\* succeed with the same tag id, both todos get the link, and tags holds
\* exactly one row of that name and user.
C4_ConcurrentCreateTag ==
    \A s1 \in Slots, s2 \in Slots :
        (/\ BothDone(s1, s2, "create_tag")
         /\ tasks[s1].dto.name = tasks[s2].dto.name
         /\ tasks[s1].dto.user_id = tasks[s2].dto.user_id)
        => (/\ tasks[s1].resp.status = 200
            /\ tasks[s2].resp.status = 200
            /\ tasks[s1].resp.body.id = tasks[s2].resp.body.id
            /\ \A s \in {s1, s2} :
                  \E l \in todos_tags :
                      l.todo = tasks[s].dto.todo_id /\ l.tag = tasks[s].resp.body.id
            /\ Cardinality({g \in tags : /\ g.name = tasks[s1].dto.name
                                         /\ g.user = tasks[s1].dto.user_id}) = 1)

\* C5: after two update_todos of the same todo that run at once, the row is
\* what the two updates give when applied in full one after the other, in one
\* of the two orders, to the row the first of them read.
C5_UpdatesSerialise ==
    \A s1 \in Slots, s2 \in Slots :
        (/\ BothDone(s1, s2, "update_todos")
         /\ tasks[s1].id = tasks[s2].id
         /\ tasks[s1].resp.status = 200
         /\ tasks[s2].resp.status = 200)
        => \E t \in todos :
              /\ t.id = tasks[s1].id
              /\ \/ t = apply_update(apply_update(tasks[s1].read, tasks[s1].dto),
                                     tasks[s2].dto)
                 \/ t = apply_update(apply_update(tasks[s2].read, tasks[s2].dto),
                                     tasks[s1].dto)

\* C6: a create_todo, create_tag, update_todos, delete_todos or delete_tag
\* that answers 400 or 404 leaves users, todos, tags and todos_tags as they were.
C6_ErrorsWriteNothing ==
    [][(req'.op \in WriteOps /\ resp'.status \in {400, 404})
       => UNCHANGED <<users, todos, tags, todos_tags>>]_vars

\* C7: the pwd of every stored user is a salted hash, and the answer of
\* create_user holds neither the password nor the hash.
C7_PwdIsHash ==
    /\ \A u \in users : u.pwd.fmt = "bcrypt"
    /\ (req.op = "create_user" /\ resp.status = 200)
          => DOMAIN resp.body = {"id", "user_name"}

\* C8: every row of todos_tags refers to a stored todo and a stored tag.
C8_LinksReferToRows ==
    \A l \in todos_tags :
        /\ \E t \in todos : t.id = l.todo
        /\ \E g \in tags : g.id = l.tag

\* C9: update_todos of a stored todo answers 200, sets item, content and
\* importance as given, sets plan_time when the given text is not empty and
\* keeps it otherwise, and changes nothing else of the store.
C9_UpdateFrame ==
    [][(req'.op = "update_todos" /\ \E t \in todos : t.id = req'.id)
       => LET old == CHOOSE t \in todos : t.id = req'.id
              new == CHOOSE t \in todos' : t.id = req'.id
              given == req'.dto
          IN  /\ resp'.status = 200
              /\ new.item = given.item
              /\ new.content = given.content
              /\ new.importance = given.importance
              /\ new.plan_time = IF given.plan_time # NoText THEN given.plan_time[1]
                                 ELSE old.plan_time
              /\ new.id = old.id
              /\ new.user = old.user
              /\ new.create_time = old.create_time
              /\ todos' \ {new} = todos \ {old}
              /\ Cardinality(todos') = Cardinality(todos)
              /\ UNCHANGED <<users, tags, todos_tags>>]_vars

\* an update without plan_time renamed a tagged todo and kept its plan_time
C9_Witness ==
    /\ req.op = "update_todos"
    /\ resp.status = 200
    /\ req.dto.plan_time = NoText
    /\ \E t \in todos : /\ t.id = req.id
                        /\ t.item = "Renamed"
                        /\ t.plan_time = 60
                        /\ \E l \in todos_tags : l.todo = t.id

\* the plan-time text of list request r is absent or parses
WellFormed(r) ==
    /\ r.op = "get_todos_by_item_name" => r.search.plan_time_str.fmt # "none"
                                          \/ r.search.plan_time_str.len = 0
    /\ r.op = "get_todos_by_plan_time" => r.plan_time_str.fmt # "none"

\* C10: every list request of an authenticated caller, for page >= 1 and
\* per_page >= 1 and a plan-time text that is absent or well formed, is answered
\* by an envelope of min(per_page, max(0, total_items - (page-1)*per_page)) items.
C10_EnvelopeLength ==
    (ListedByCaller /\ WellFormed(req) /\ req.page >= 1 /\ req.per_page >= 1)
    => /\ resp.status = 200
       /\ LET rest == resp.body.total_items - (req.page - 1) * req.per_page
          IN  Len(resp.body.items) =
                 Min2(req.per_page, IF rest > 0 THEN rest ELSE 0)

\* todo t of store db meets the predicates list request r carries, as its
\* handler reads them: text when not empty, importance and tag when positive,
\* and (Carries) the window when the plan-time text has thirteen or ten characters
CarriesBesideWindow(r, db, t) ==
    CASE r.op = "get_todos_by_item_importance" -> t.importance = r.item_importance
      [] r.op = "get_todos_by_item_name" ->
           LET q == r.search
           IN  /\ Len(q.item_name) > 0 => icontains(t.item, q.item_name)
               /\ q.item_importance > 0 => t.importance = q.item_importance
               /\ q.tag_id > 0 =>
                     /\ \E l \in db.todos_tags : l.todo = t.id /\ l.tag = q.tag_id
                     /\ \E g \in db.tags : g.id = q.tag_id
      [] OTHER -> TRUE

Carries(r, db, t) ==
    /\ CarriesBesideWindow(r, db, t)
    /\ r.op = "get_todos_by_item_name" =>
          LET window == plan_time_window(r.search.plan_time_str)
          IN  (window.ok /\ window.filter) =>
                 t.plan_time > window.start /\ t.plan_time < window.end

\* ids of the todos of user u that request r selects
Selected(r, db, u) == {t.id : t \in {t \in db.todos : t.user = u /\ Carries(r, db, t)}}

\* ids of the items on all pages of per_page items of the answers to r
Listed(r, db) ==
    UNION {LET a == ListAnswer([r EXCEPT !.page = p], db)
           IN  IF a.status = 200
               THEN {a.body.items[i].id : i \in 1..Len(a.body.items)}
               ELSE {} : p \in 1..(Cardinality(db.todos) + 1)}

\* C11: a list request answered 200 reports as total_items the number of the
\* caller's todos that meet the predicates of the request, these are the todos
\* its pages hold, and every other page and per_page gets the same total_items.
C11_TotalMatchesItems ==
    (ListedByCaller /\ resp.status = 200)
    => /\ resp.body.total_items = Cardinality(Selected(req, DB, req.token.id))
       /\ Listed(req, DB) = Selected(req, DB, req.token.id)
       /\ \A p \in Pagings :
             LET a == ListAnswer([req EXCEPT !.page = p[1], !.per_page = p[2]], DB)
             IN  a.status = 200 => a.body.total_items = resp.body.total_items

\* the second page of a search by importance and tag that selects four todos
C11_Witness ==
    /\ ListedByCaller
    /\ req.op = "get_todos_by_item_name"
    /\ req.search.tag_id > 0
    /\ req.search.item_importance > 0
    /\ resp.status = 200
    /\ req.page = 2
    /\ resp.body.total_items = 4
    /\ Len(resp.body.items) = 1

\* the plan-time text of list request r
PlanTimeText(r) ==
    IF r.op = "get_todos_by_item_name" THEN r.search.plan_time_str ELSE r.plan_time_str

\* the last request filtered by a plan-time text that spells a date and hour
\* or a date
WindowAsked ==
    /\ ListedByCaller
    /\ req.op \in {"get_todos_by_plan_time", "get_todos_by_item_name"}
    /\ \/ PlanTimeText(req).len = 13 /\ PlanTimeText(req).fmt = "%Y-%m-%d %H"
       \/ PlanTimeText(req).len = 10 /\ PlanTimeText(req).fmt = "%Y-%m-%d"

\* C12: a request with a date-and-hour text of instant start is answered with
\* exactly the caller's todos with start <= plan_time < start + 1 hour, and one
\* with a date text with those with start <= plan_time < start + 1 day.
C12_HalfOpenWindow ==
    WindowAsked
    => LET start == PlanTimeText(req).at
           end == start + (IF PlanTimeText(req).len = 13 THEN HOUR ELSE DAY)
       IN  /\ resp.status = 200
           /\ Listed(req, DB) =
                 {t.id : t \in {t \in todos : /\ t.user = req.token.id
                                               /\ CarriesBesideWindow(req, DB, t)
                                               /\ start <= t.plan_time
                                               /\ t.plan_time < end}}

\* C13: get_todos_by_plan_time answers 400 to an authenticated caller for
\* every plan-time text that is not "null" and spells neither a date and hour
\* in thirteen characters nor a date in ten.
C13_InvalidPlanTimeIs400 ==
    (/\ ListedByCaller
     /\ req.op = "get_todos_by_plan_time"
     /\ req.plan_time_str.fmt = "none")
    => resp.status = 400

\* C14: a list request whose token is absent, expired, malformed or signed
\* with another key is answered 401.
C14_Unauthenticated401 ==
    (req.op \in ListOps /\ ~verify_token(req.token).ok) => resp.status = 401

\* the importance list request r asks for, -1 when it asks for none
ImportanceAsked(r) ==
    CASE r.op = "get_todos_by_item_importance" -> r.item_importance
      [] r.op = "get_todos_by_item_name" -> r.search.item_importance
      [] OTHER -> -1

\* C15: a list request of an authenticated caller that asks for importance v,
\* one of NONE, LOW, MIDDLE and HIGH, is answered with todos of importance v
\* only, and total_items counts the caller's todos of importance v that meet
\* the other predicates of the request.
C15_ImportanceApplied ==
    (ListedByCaller /\ WellFormed(req) /\ ImportanceAsked(req) \in Importance)
    => /\ resp.status = 200
       /\ \A i \in 1..Len(resp.body.items) :
             resp.body.items[i].importance = ImportanceAsked(req)
       /\ resp.body.total_items =
             Cardinality({t \in todos : /\ t.user = req.token.id
                                        /\ Carries(req, DB, t)
                                        /\ t.importance = ImportanceAsked(req)})

\* C16: the todo and the tag a row of todos_tags joins have the same user.
C16_LinksWithinOneUser ==
    \A l \in todos_tags, t \in todos, g \in tags :
        (t.id = l.todo /\ g.id = l.tag) => t.user = g.user

====
